---- MODULE Spec2Model ----
(***************************************************************************)
(* Model of src/weather/client.py: the MCPClient class (connect_to_server, *)
(* process_query, chat_loop, cleanup) and the main entry point, together   *)
(* with the boundary behaviour of the tool service of src/weather/         *)
(* weather.py as the client sees it.                                       *)
(*                                                                         *)
(* Two specifications share the method bodies:                             *)
(*   Spec     the program: main drives the client (connect, chat loop,     *)
(*            cleanup in the finally block);                               *)
(*   SpecAPI  the class used directly: a caller invokes the public methods *)
(*            of one MCPClient in any order.                               *)
(* Strings whose content the code inspects (strip, lower, endswith, join)  *)
(* are sequences of one-character strings.                                 *)
(***************************************************************************)
EXTENDS Integers, Sequences, FiniteSets, TLC

VARIABLES
    mainpc,               \* position of main / chat_loop ("api": no main)
    pending,              \* exception propagating out of main's try block
    inputs,               \* lines read by chat_loop / calls made by the caller
    printed,              \* what chat_loop printed last: [kind, text]
    input_line,           \* the line input() returned last
    session,              \* self.session: "None" or "ClientSession"
    exit_stack,           \* self.exit_stack: the contexts entered, oldest first
    opened,               \* contexts entered and not yet exited
    initialized,          \* the MCP handshake has completed
    acquired,             \* history: every context entered, in order
    exits,                \* history: every __aexit__ run, in order
    cleanups,             \* history: number of cleanup calls that have ended
    exit_exc,             \* an __aexit__ of the running aclose has raised
    pc,                   \* position inside the method being executed
    outcome,              \* how the last method call ended
    query,                \* process_query: the query argument
    tools_resp,           \* process_query: the catalog list_tools returned
    function_decls,       \* process_query: the converted declarations
    contents,             \* process_query: the conversation
    final_text_parts,     \* process_query: the collected text
    parts,                \* process_query: parts of the latest response
    tool_calls,           \* process_query: function calls of the latest response
    tool_response_parts,  \* process_query: responses built so far
    listLog,              \* history: list_tools requests of this run and their results
    genLog,               \* history: model invocations of this run and their results
    toolLog               \* history: call_tool requests of this run and their results

lifecycle == <<session, exit_stack, opened, initialized,
               acquired, exits, cleanups, exit_exc>>
locals    == <<query, tools_resp, function_decls, contents, final_text_parts,
               parts, tool_calls, tool_response_parts, listLog, genLog, toolLog>>
mainvars  == <<mainpc, pending, inputs, printed, input_line>>
vars      == <<mainvars, lifecycle, pc, outcome, locals>>

----------------------------------------------------------------------------
(* Bounds of the exploration *)

\* model invocations explored in one run of process_query
MaxIter == 2
\* lines chat_loop reads in one run of main
MaxInputs == 2
\* method calls the direct caller makes in SpecAPI
MaxCalls == 3

----------------------------------------------------------------------------
(* Character strings *)

Whitespace == {" ", "\t", "\n"}

RECURSIVE LStrip(_)
LStrip(s) == IF s # <<>> /\ Head(s) \in Whitespace THEN LStrip(Tail(s)) ELSE s

RECURSIVE RStrip(_)
RStrip(s) ==
    IF s # <<>> /\ s[Len(s)] \in Whitespace
    THEN RStrip(SubSeq(s, 1, Len(s) - 1)) ELSE s

\* str.strip()
Strip(s) == RStrip(LStrip(s))

LowerChar(c) ==
    CASE c = "Q" -> "q" [] c = "U" -> "u" [] c = "I" -> "i" [] c = "T" -> "t"
      [] c = "H" -> "h" [] OTHER -> c

\* str.lower()
Lower(s) == [i \in 1..Len(s) |-> LowerChar(s[i])]

\* str.endswith(suffix)
EndsWith(s, suffix) ==
    /\ Len(s) >= Len(suffix)
    /\ SubSeq(s, Len(s) - Len(suffix) + 1, Len(s)) = suffix

\* truthiness of a Python str
Truthy(s) == Len(s) > 0

RECURSIVE JoinWith(_, _)
\* sep.join(ts)
JoinWith(sep, ts) ==
    IF ts = <<>> THEN <<>>
    ELSE IF Len(ts) = 1 THEN ts[1]
    ELSE ts[1] \o sep \o JoinWith(sep, Tail(ts))

RECURSIVE SelectStripped(_)
\* [t for t in ts if t.strip()]
SelectStripped(ts) ==
    IF ts = <<>> THEN <<>>
    ELSE IF Truthy(Strip(Head(ts)))
         THEN <<Head(ts)>> \o SelectStripped(Tail(ts))
         ELSE SelectStripped(Tail(ts))

\* mutant of ReturnValue: the whitespace-only fragments are not left out
ReturnValue_Unfiltered(ts) == JoinWith(<<"\n">>, ts)

\* return "\n".join([t for t in final_text_parts if t.strip()])
ReturnValue(ts) == JoinWith(<<"\n">>, SelectStripped(ts))

----------------------------------------------------------------------------
(* Method outcomes *)

NoValue == <<>>

Returned(method, value) ==
    [method |-> method, status |-> "returned", fault |-> "None", value |-> value]

Raised(method, fault) ==
    [method |-> method, status |-> "raised", fault |-> fault, value |-> NoValue]

NoOutcome == [method |-> "None", status |-> "None", fault |-> "None", value |-> NoValue]

Idle == pc = "idle"

----------------------------------------------------------------------------
(* connect_to_server *)

ScriptPaths == { <<"w", ".", "p", "y">>, <<"w", ".", "j", "s">>,
                 <<"w", ".", "t", "x", "t">>, <<"p", "y">> }

\* mutant of SupportedScript: the dot of the suffix is not looked at
SupportedScript_NoDot(path) ==
    EndsWith(path, <<"p", "y">>) \/ EndsWith(path, <<"j", "s">>)

\* lines 53-57: the script must be a .py or .js file
SupportedScript(path) ==
    EndsWith(path, <<".", "p", "y">>) \/ EndsWith(path, <<".", "j", "s">>)

\* the call and lines 53-70: ValueError before anything is acquired
connect_to_server(path) ==
    /\ Idle
    /\ acquired = <<>>
    /\ cleanups = 0
    /\ IF SupportedScript(path)
       THEN /\ pc' = "enter_stdio"
            /\ UNCHANGED outcome
       ELSE /\ pc' = "idle"
            /\ outcome' = Raised("connect_to_server", "ValueError")
    /\ UNCHANGED <<session, exit_stack, opened, initialized, acquired, exits,
                   cleanups, exit_exc, locals>>

\* exit_stack.enter_async_context(cm): cm is entered and its exit is pushed
EnterContext(cm) ==
    /\ exit_stack' = Append(exit_stack, cm)
    /\ opened' = opened \cup {cm}
    /\ acquired' = Append(acquired, cm)

\* line 73: the server subprocess is started and its pipes are opened
ConnectEnterStdio ==
    /\ pc = "enter_stdio"
    /\ UNCHANGED mainvars
    /\ \/ /\ EnterContext("stdio_client")
          /\ pc' = "enter_session"
          /\ UNCHANGED outcome
       \/ /\ pc' = "idle"
          /\ outcome' = Raised("connect_to_server", "TransportError")
          /\ UNCHANGED <<exit_stack, opened, acquired>>
    /\ UNCHANGED <<session, initialized, exits, cleanups,
                   exit_exc, locals>>

\* lines 76-79: the client session is entered and stored in self.session
ConnectEnterSession ==
    /\ pc = "enter_session"
    /\ UNCHANGED mainvars
    /\ \/ /\ EnterContext("ClientSession")
          /\ session' = "ClientSession"
          /\ pc' = "initialize"
          /\ UNCHANGED outcome
       \/ /\ pc' = "idle"
          /\ outcome' = Raised("connect_to_server", "TransportError")
          /\ UNCHANGED <<session, exit_stack, opened, acquired>>
    /\ UNCHANGED <<initialized, exits, cleanups, exit_exc,
                   locals>>

\* line 82: the handshake
ConnectInitialize ==
    /\ pc = "initialize"
    /\ UNCHANGED mainvars
    /\ \/ /\ initialized' = TRUE
          /\ pc' = "connect_list_tools"
          /\ UNCHANGED outcome
       \/ /\ pc' = "idle"
          /\ outcome' = Raised("connect_to_server", "TransportError")
          /\ UNCHANGED initialized
    /\ UNCHANGED <<session, exit_stack, opened, acquired,
                   exits, cleanups, exit_exc, locals>>

\* lines 86-91: the tools are listed and printed
ConnectListTools ==
    /\ pc = "connect_list_tools"
    /\ UNCHANGED mainvars
    /\ pc' = "idle"
    /\ \/ outcome' = Returned("connect_to_server", NoValue)
       \/ outcome' = Raised("connect_to_server", "TransportError")
    /\ UNCHANGED <<lifecycle, locals>>

\* the session answers requests: entered, handshake done, not yet closed
SessionReady == "ClientSession" \in opened /\ initialized

----------------------------------------------------------------------------
(* cleanup *)

\* the call of cleanup (line 208)
cleanup ==
    /\ Idle
    /\ pc' = "aclose"
    /\ exit_exc' = FALSE
    /\ UNCHANGED <<session, exit_stack, opened, initialized,
                   acquired, exits, cleanups, outcome, locals>>

\* mutant of NextToExit: the contexts are exited oldest first
NextToExit_Oldest(stack) == stack[1]

\* the context aclose exits next: the one entered last
NextToExit(stack) == stack[Len(stack)]

\* the stack once that context is popped
PopExit(stack) == SubSeq(stack, 1, Len(stack) - 1)

\* line 212, one callback of aclose: pop it and run its __aexit__, which may
\* raise; aclose goes on with the remaining callbacks either way
CleanupExitOne ==
    /\ pc = "aclose"
    /\ UNCHANGED mainvars
    /\ exit_stack # <<>>
    /\ LET cm == NextToExit(exit_stack) IN
         /\ exit_stack' = PopExit(exit_stack)
         /\ opened' = opened \ {cm}
         /\ exits' = Append(exits, cm)
    /\ \E raises \in BOOLEAN : exit_exc' = (exit_exc \/ raises)
    /\ UNCHANGED <<session, initialized, acquired, cleanups,
                   pc, outcome, locals>>

\* mutant of CleanupReturn: the callbacks that were run stay registered
CleanupReturn_KeepsStack ==
    /\ pc = "aclose"
    /\ UNCHANGED mainvars
    /\ exit_stack = <<>>
    /\ pc' = "idle"
    /\ cleanups' = cleanups + 1
    /\ outcome' = IF exit_exc THEN Raised("cleanup", "ExitError")
                  ELSE Returned("cleanup", NoValue)
    /\ exit_stack' = acquired
    /\ UNCHANGED <<session, opened, initialized, acquired,
                   exits, exit_exc, locals>>

\* line 212, the end of aclose: the stack is empty; an exception raised by an
\* __aexit__ is raised now
CleanupReturn ==
    /\ pc = "aclose"
    /\ UNCHANGED mainvars
    /\ exit_stack = <<>>
    /\ pc' = "idle"
    /\ cleanups' = cleanups + 1
    /\ outcome' = IF exit_exc THEN Raised("cleanup", "ExitError")
                  ELSE Returned("cleanup", NoValue)
    /\ UNCHANGED <<session, exit_stack, opened, initialized,
                   acquired, exits, exit_exc, locals>>

----------------------------------------------------------------------------
(* Values exchanged with the model and the tool service *)

\* Optional[x]: None is the empty sequence, a value v is <<v>>
None == <<>>

Some(v) == <<v>>

EmptyDict == [k \in {} |-> ""]

\* types.Part, one record shape for its three uses
TextPart(t) ==
    [kind |-> "text", text |-> t, name |-> "", args |-> None, response |-> ""]

CallPart(n, a) ==
    [kind |-> "function_call", text |-> <<>>, name |-> n, args |-> a,
     response |-> ""]

\* lines 166-171: Part(function_response=FunctionResponse(name, {"result": content}))
ResponsePart(n, content) ==
    [kind |-> "function_response", text |-> <<>>, name |-> n, args |-> None,
     response |-> content]

\* types.Content(role, parts)
Content(role, ps) == [role |-> role, parts |-> ps]

\* the tools src/weather/weather.py registers
ToolNames == {"get_alerts", "get_forecast"}

\* the arguments a registered tool requires
RequiredArgs(n) == IF n = "get_alerts" THEN {"state"} ELSE {"latitude", "longitude"}

\* what a tool of weather.py returns when it runs
ToolOutputs(n) ==
    IF n = "get_alerts"
    THEN {"No active alerts for this state.",
          "Unable to fetch alerts or no alerts found."}
    ELSE {"Unable to fetch forecast data for this location."}

\* the contents the tool service can answer a call with: an unknown name or
\* arguments that fail the tool's schema are answered with an error content
\* (isError is set on the result; the result is returned, nothing is raised)
ToolResults(n, a) ==
    IF n \notin ToolNames THEN {"Unknown tool"}
    ELSE IF ~(RequiredArgs(n) \subseteq DOMAIN a) THEN {"Error executing tool"}
    ELSE ToolOutputs(n)

\* the answer is a tool-side failure
IsErrorContent(c) == c \in {"Unknown tool", "Error executing tool"}

StateCA == [k \in {"state"} |-> "CA"]

\* the responses of the model that are explored
ModelResponses ==
    { <<>>,
      <<TextPart(<<"a">>)>>,
      <<TextPart(<<"a">>), TextPart(<<"b">>)>>,
      <<TextPart(<<" ">>), TextPart(<<>>), TextPart(<<"a", " ">>)>>,
      <<TextPart(<<"b">>), CallPart("get_alerts", Some(StateCA))>>,
      <<CallPart("doesNotExist", None), CallPart("get_alerts", Some(EmptyDict))>>,
      <<CallPart("get_alerts", Some(StateCA)), TextPart(<<"\n">>)>> }

\* the catalogs of the tool service that are explored
Schema(keys) ==
    [k \in keys |-> IF k = "type" THEN "object" ELSE IF k = "properties" THEN "{state}"
                    ELSE "[state]"]

Tool(n, d, s) == [name |-> n, description |-> d, inputSchema |-> s]

Catalogs ==
    { <<>>,
      <<Tool("get_alerts", Some("Get weather alerts"),
             Some(Schema({"type", "properties", "required"}))),
        Tool("get_forecast", None, Some(Schema({"properties"})))>>,
      <<Tool("get_alerts", None, None)>>,
      <<Tool("get_forecast", Some(""), Some(EmptyDict))>> }

----------------------------------------------------------------------------
(* process_query: the catalog adapter, lines 105-118 *)

\* line 108: t.inputSchema or {"type": "object", "properties": {}}
DefaultSchema == [k \in {"type", "properties"} |-> IF k = "type" THEN "object" ELSE "{}"]

SchemaTruthy(s) == s # None /\ DOMAIN s[1] # {}

\* lines 109-110: if "type" not in params_schema: params_schema["type"] = "object"
WithType(d) ==
    IF "type" \in DOMAIN d THEN d
    ELSE [k \in DOMAIN d \cup {"type"} |-> IF k = "type" THEN "object" ELSE d[k]]

\* mutant of ParamsSchema: a schema without a type is replaced by the default
ParamsSchema_DefaultIfUntyped(t) ==
    IF SchemaTruthy(t.inputSchema) /\ "type" \in DOMAIN t.inputSchema[1]
    THEN t.inputSchema[1]
    ELSE DefaultSchema

\* lines 108-110
ParamsSchema(t) ==
    IF SchemaTruthy(t.inputSchema) THEN WithType(t.inputSchema[1])
    ELSE WithType(DefaultSchema)

\* lines 112-118
FunctionDeclaration(t) ==
    [name |-> t.name,
     description |-> IF t.description # None /\ t.description[1] # ""
                     THEN t.description[1] ELSE "",
     parameters |-> ParamsSchema(t)]

\* params_schema is t.inputSchema itself when that is truthy, so line 110
\* writes into the descriptor
ToolAfterConversion(t) ==
    IF SchemaTruthy(t.inputSchema)
    THEN [t EXCEPT !.inputSchema = Some(WithType(t.inputSchema[1]))]
    ELSE t

\* lines 105-118 over the whole catalog
FunctionDecls(tools) == [i \in 1..Len(tools) |-> FunctionDeclaration(tools[i])]

ToolsAfterConversion(tools) == [i \in 1..Len(tools) |-> ToolAfterConversion(tools[i])]

----------------------------------------------------------------------------
(* process_query: the tool-call loop, lines 97-177 *)

\* line 147: getattr(p, "function_call", None)
HasCall(p) == p.kind = "function_call"

\* line 147
ExtractCalls(ps) == SelectSeq(ps, HasCall)

\* line 143: getattr(p, "text", None)
HasText(p) == p.kind = "text" /\ Truthy(p.text)

\* mutant of CollectText: text next to a tool request is dropped
CollectText_OnlyFinal(ps) ==
    IF ExtractCalls(ps) # <<>> THEN <<>>
    ELSE LET ts == SelectSeq(ps, HasText) IN [i \in 1..Len(ts) |-> ts[i].text]

\* lines 142-144: the texts appended to final_text_parts
CollectText(ps) ==
    LET ts == SelectSeq(ps, HasText) IN [i \in 1..Len(ts) |-> ts[i].text]

\* line 160: fc.args or {}
ToolArgs(fc) == IF fc.args # None /\ DOMAIN fc.args[1] # {} THEN fc.args[1] ELSE EmptyDict

\* mutant of process_query: the declarations of an earlier run are reused
process_query_Cached(q) ==
    /\ Idle
    /\ query' = q
    /\ final_text_parts' = <<>>
    /\ parts' = <<>>
    /\ tool_calls' = <<>>
    /\ tool_response_parts' = <<>>
    /\ listLog' = <<>>
    /\ genLog' = <<>>
    /\ toolLog' = <<>>
    /\ IF session = "None"
       THEN /\ pc' = "idle"
            /\ outcome' = Raised("process_query", "RuntimeError")
            /\ contents' = <<>>
            /\ UNCHANGED <<tools_resp, function_decls>>
       ELSE IF function_decls # <<>>
       THEN /\ pc' = "generate"
            /\ contents' = <<Content("user", <<TextPart(q)>>)>>
            /\ UNCHANGED <<outcome, tools_resp, function_decls>>
       ELSE /\ pc' = "list_tools"
            /\ tools_resp' = <<>>
            /\ function_decls' = <<>>
            /\ contents' = <<>>
            /\ UNCHANGED outcome
    /\ UNCHANGED lifecycle

\* the call and lines 99-100
process_query(q) ==
    /\ Idle
    /\ query' = q
    /\ tools_resp' = <<>>
    /\ function_decls' = <<>>
    /\ contents' = <<>>
    /\ final_text_parts' = <<>>
    /\ parts' = <<>>
    /\ tool_calls' = <<>>
    /\ tool_response_parts' = <<>>
    /\ listLog' = <<>>
    /\ genLog' = <<>>
    /\ toolLog' = <<>>
    /\ IF session = "None"
       THEN /\ pc' = "idle"
            /\ outcome' = Raised("process_query", "RuntimeError")
       ELSE /\ pc' = "list_tools"
            /\ UNCHANGED outcome
    /\ UNCHANGED lifecycle

\* lines 103-128: the catalog is fetched and converted, the conversation starts
\* with the query; a session that is not ready cannot answer the request
PQListTools ==
    /\ pc = "list_tools"
    /\ UNCHANGED mainvars
    /\ \/ /\ SessionReady
          /\ \E catalog \in Catalogs :
               /\ listLog' = Append(listLog, [fault |-> FALSE, tools |-> catalog])
               /\ tools_resp' = ToolsAfterConversion(catalog)
               /\ function_decls' = FunctionDecls(catalog)
          /\ contents' = <<Content("user", <<TextPart(query)>>)>>
          /\ final_text_parts' = <<>>
          /\ pc' = "generate"
          /\ UNCHANGED outcome
       \/ /\ listLog' = Append(listLog, [fault |-> TRUE, tools |-> <<>>])
          /\ pc' = "idle"
          /\ outcome' = Raised("process_query", "TransportError")
          /\ UNCHANGED <<tools_resp, function_decls, contents, final_text_parts>>
    /\ UNCHANGED <<lifecycle, query, parts, tool_calls, tool_response_parts,
                   genLog, toolLog>>

\* the number of list_tools requests of this run so far
nList == Len(listLog)

\* the number of model invocations of this run so far
nGen == Len(genLog)

\* lines 132-136: generate_content(model, contents=contents, config=config)
\* with its result
Invocation(fault, resp) ==
    [fault |-> fault, parts |-> resp, contents |-> contents,
     config |-> function_decls]

\* mutant of PQGenerateFault: the fault is swallowed and the text collected so
\* far is returned
PQGenerateFault_ReturnsPartial ==
    /\ pc = "generate"
    /\ UNCHANGED mainvars
    /\ genLog' = Append(genLog, Invocation(TRUE, <<>>))
    /\ pc' = "idle"
    /\ outcome' = Returned("process_query", ReturnValue(final_text_parts))
    /\ UNCHANGED <<lifecycle, query, tools_resp, function_decls, contents,
                   final_text_parts, parts, tool_calls, tool_response_parts,
                   listLog, toolLog>>

\* line 132 raising: the model call fails
PQGenerateFault ==
    /\ pc = "generate"
    /\ UNCHANGED mainvars
    /\ genLog' = Append(genLog, Invocation(TRUE, <<>>))
    /\ pc' = "idle"
    /\ outcome' = Raised("process_query", "ModelError")
    /\ UNCHANGED <<lifecycle, query, tools_resp, function_decls, contents,
                   final_text_parts, parts, tool_calls, tool_response_parts,
                   listLog, toolLog>>

\* mutant of AfterResponse: the next invocation is given only the turns that
\* are new since the last one
AfterResponse_Truncates(resp, texts, calls) ==
    IF calls = <<>>
    THEN /\ pc' = "idle"
         /\ outcome' = Returned("process_query", ReturnValue(texts))
         /\ UNCHANGED <<contents, tool_response_parts>>
    ELSE /\ contents' = <<Content("model", resp)>>
         /\ tool_response_parts' = <<>>
         /\ pc' = "call_tool"
         /\ UNCHANGED outcome

\* mutant of AfterResponse: the loop gives up one invocation before the bound
\* of the exploration, whatever the response asks for
AfterResponse_Capped(resp, texts, calls) ==
    IF calls = <<>> \/ nGen + 1 >= MaxIter - 1
    THEN /\ pc' = "idle"
         /\ outcome' = Returned("process_query", ReturnValue(texts))
         /\ UNCHANGED <<contents, tool_response_parts>>
    ELSE /\ contents' = Append(contents, Content("model", resp))
         /\ tool_response_parts' = <<>>
         /\ pc' = "call_tool"
         /\ UNCHANGED outcome

\* mutant of AfterResponse: the final response is appended as a model turn too
AfterResponse_AppendsFinal(resp, texts, calls) ==
    IF calls = <<>>
    THEN /\ pc' = "idle"
         /\ outcome' = Returned("process_query", ReturnValue(texts))
         /\ contents' = Append(contents, Content("model", resp))
         /\ UNCHANGED tool_response_parts
    ELSE /\ contents' = Append(contents, Content("model", resp))
         /\ tool_response_parts' = <<>>
         /\ pc' = "call_tool"
         /\ UNCHANGED outcome

\* lines 150-154 and 176-177: no tool call ends the loop and returns the
\* joined text; otherwise the model turn is appended
AfterResponse(resp, texts, calls) ==
    IF calls = <<>>
    THEN /\ pc' = "idle"
         /\ outcome' = Returned("process_query", ReturnValue(texts))
         /\ UNCHANGED <<contents, tool_response_parts>>
    ELSE /\ contents' = Append(contents, Content("model", resp))
         /\ tool_response_parts' = <<>>
         /\ pc' = "call_tool"
         /\ UNCHANGED outcome

\* lines 132-154, 176-177: one model invocation that returns a response
PQGenerate ==
    /\ pc = "generate"
    /\ UNCHANGED mainvars
    /\ \E resp \in ModelResponses :
         /\ nGen + 1 < MaxIter \/ ExtractCalls(resp) = <<>>
         /\ genLog' = Append(genLog, Invocation(FALSE, resp))
         /\ parts' = resp
         /\ final_text_parts' = final_text_parts \o CollectText(resp)
         /\ tool_calls' = ExtractCalls(resp)
         /\ AfterResponse(resp, final_text_parts', tool_calls')
    /\ UNCHANGED <<lifecycle, query, tools_resp, function_decls, listLog, toolLog>>

\* the tool call the for loop of line 158 is at
CurrentCall == tool_calls[Len(tool_response_parts) + 1]

\* the entry of a request that has not been answered yet
Request(fc) == [name |-> fc.name, args |-> ToolArgs(fc), result |-> "InFlight"]

\* mutant of IssuedCalls: the calls of the turn are all sent at once
IssuedCalls_All == SubSeq(tool_calls, Len(tool_response_parts) + 1, Len(tool_calls))

\* the requests line 162 sends before it waits: the current one
IssuedCalls == <<CurrentCall>>

\* lines 158-162: call_tool sends the request and awaits the result
PQCallToolSend ==
    /\ pc = "call_tool"
    /\ UNCHANGED mainvars
    /\ toolLog' = toolLog \o [i \in 1..Len(IssuedCalls) |-> Request(IssuedCalls[i])]
    /\ pc' = "await_tool"
    /\ UNCHANGED <<lifecycle, outcome, query, tools_resp, function_decls, contents,
                   final_text_parts, parts, tool_calls, tool_response_parts,
                   listLog, genLog>>

\* the log once the request awaited has its result
Resolved(log, result) == [log EXCEPT ![Len(log)].result = result]

\* mutant of PQCallToolFault: the failed session is dropped
PQCallToolFault_DropsSession ==
    /\ pc = "await_tool"
    /\ UNCHANGED mainvars
    /\ toolLog' = Resolved(toolLog, "TransportError")
    /\ pc' = "idle"
    /\ outcome' = Raised("process_query", "TransportError")
    /\ session' = "None"
    /\ UNCHANGED <<exit_stack, opened, initialized, acquired, exits, cleanups,
                   exit_exc, query, tools_resp, function_decls, contents,
                   final_text_parts, parts, tool_calls, tool_response_parts,
                   listLog, genLog>>

\* line 162 raising: the request fails in the transport
PQCallToolFault ==
    /\ pc = "await_tool"
    /\ UNCHANGED mainvars
    /\ toolLog' = Resolved(toolLog, "TransportError")
    /\ pc' = "idle"
    /\ outcome' = Raised("process_query", "TransportError")
    /\ UNCHANGED <<lifecycle, query, tools_resp, function_decls, contents,
                   final_text_parts, parts, tool_calls, tool_response_parts,
                   listLog, genLog>>

\* mutant of FoldResponse: an error answer of the service is raised
FoldResponse_AbortOnError(name, content) ==
    IF IsErrorContent(content)
    THEN /\ pc' = "idle"
         /\ outcome' = Raised("process_query", "ToolError")
         /\ UNCHANGED <<tool_response_parts, contents>>
    ELSE LET responses == Append(tool_response_parts, ResponsePart(name, content)) IN
           /\ tool_response_parts' = responses
           /\ UNCHANGED outcome
           /\ IF Len(responses) = Len(tool_calls)
              THEN /\ contents' = Append(contents, Content("user", responses))
                   /\ pc' = "generate"
              ELSE /\ pc' = "call_tool"
                   /\ UNCHANGED contents

\* lines 165-174: the response is appended to the list; after the last call the
\* list becomes one user turn and the loop goes back to the model
FoldResponse(name, content) ==
    LET responses == Append(tool_response_parts, ResponsePart(name, content)) IN
      /\ tool_response_parts' = responses
      /\ UNCHANGED outcome
      /\ IF Len(responses) = Len(tool_calls)
         THEN /\ contents' = Append(contents, Content("user", responses))
              /\ pc' = "generate"
         ELSE /\ pc' = "call_tool"
              /\ UNCHANGED contents

\* lines 158-174: one tool call that the service answers
PQCallTool ==
    /\ pc = "await_tool"
    /\ UNCHANGED mainvars
    /\ SessionReady
    /\ LET fc == CurrentCall IN
         \E content \in ToolResults(fc.name, ToolArgs(fc)) :
           /\ toolLog' = Resolved(toolLog, content)
           /\ FoldResponse(fc.name, content)
    /\ UNCHANGED <<lifecycle, query, tools_resp, function_decls,
                   final_text_parts, parts, tool_calls, listLog, genLog>>

----------------------------------------------------------------------------
(* chat_loop and main *)

\* the lines input() returns that are explored
InputLines == { <<"q", "u", "i", "t">>, <<" ", "Q", "U", "I", "T", "\n">>,
                <<"h", "i">>, <<" ", "q", " ">> }

Quit == <<"q", "u", "i", "t">>

NothingPrinted == [kind |-> "none", text |-> <<>>]

\* the method the client is executing
CurrentMethod ==
    CASE pc \in {"enter_stdio", "enter_session", "initialize", "connect_list_tools"}
           -> "connect_to_server"
      [] pc \in {"list_tools", "generate", "call_tool", "await_tool"}
           -> "process_query"
      [] pc = "aclose" -> "cleanup"
      [] OTHER -> "None"

\* lines 224-229: the client exists and main calls connect_to_server
MainConnect ==
    /\ mainpc = "start"
    /\ \E path \in ScriptPaths : connect_to_server(path)
    /\ mainpc' = "connecting"
    /\ UNCHANGED <<pending, inputs, printed, input_line>>

\* mutant of MainConnectDone: connect_to_server is called outside the try
\* block, so its exception leaves main at once
MainConnectDone_OutsideTry ==
    /\ mainpc = "connecting"
    /\ Idle
    /\ IF outcome.status = "returned"
       THEN mainpc' = "chat_loop" /\ UNCHANGED pending
       ELSE mainpc' = "exited" /\ pending' = outcome.fault
    /\ UNCHANGED <<inputs, printed, input_line, lifecycle, pc, outcome, locals>>

\* lines 229-236: connect_to_server returns and chat_loop starts, or it raises
\* and control passes to the finally block
MainConnectDone ==
    /\ mainpc = "connecting"
    /\ Idle
    /\ IF outcome.status = "returned"
       THEN mainpc' = "chat_loop" /\ UNCHANGED pending
       ELSE mainpc' = "finally" /\ pending' = outcome.fault
    /\ UNCHANGED <<inputs, printed, input_line, lifecycle, pc, outcome, locals>>

\* lines 189-200: a line is read; quit ends the loop, anything else is the query
ChatLoopRead ==
    /\ mainpc = "chat_loop"
    /\ Idle
    /\ \E line \in InputLines :
         LET q == Strip(line) IN
           /\ input_line' = line
           /\ IF Lower(q) = Quit
              THEN /\ mainpc' = "finally"
                   /\ pending' = "None"
                   /\ UNCHANGED <<inputs, lifecycle, pc, outcome, locals>>
              ELSE /\ inputs < MaxInputs
                   /\ inputs' = inputs + 1
                   /\ process_query(q)
                   /\ mainpc' = "querying"
                   /\ UNCHANGED pending
    /\ UNCHANGED printed

\* lines 192, 204-205: input() raises an Exception (end of input); it is
\* reported and the loop goes on
ChatLoopInputError ==
    /\ mainpc = "chat_loop"
    /\ Idle
    /\ inputs < MaxInputs
    /\ inputs' = inputs + 1
    /\ printed' = [kind |-> "error", text |-> <<"EOFError">>]
    /\ UNCHANGED <<mainpc, pending, input_line, lifecycle, pc, outcome, locals>>

\* mutant of ChatLoopQueryDone: the Exception is not caught and leaves the loop
ChatLoopQueryDone_Reraises ==
    /\ mainpc = "querying"
    /\ Idle
    /\ IF outcome.status = "returned"
       THEN /\ printed' = [kind |-> "response", text |-> outcome.value]
            /\ mainpc' = "chat_loop"
            /\ UNCHANGED pending
       ELSE /\ mainpc' = "finally"
            /\ pending' = outcome.fault
            /\ UNCHANGED printed
    /\ UNCHANGED <<inputs, input_line, lifecycle, pc, outcome, locals>>

\* lines 200-205: the answer is printed, or the Exception is caught and
\* reported; the loop goes on
ChatLoopQueryDone ==
    /\ mainpc = "querying"
    /\ Idle
    /\ printed' = IF outcome.status = "returned"
                  THEN [kind |-> "response", text |-> outcome.value]
                  ELSE [kind |-> "error", text |-> <<outcome.fault>>]
    /\ mainpc' = "chat_loop"
    /\ UNCHANGED <<pending, inputs, input_line, lifecycle, pc, outcome, locals>>

\* a KeyboardInterrupt or a cancellation of the main task: not an Exception,
\* so it leaves connect_to_server or chat_loop at the point they are at
MainInterrupt ==
    /\ mainpc \in {"connecting", "chat_loop", "querying"}
    /\ pc' = "idle"
    /\ outcome' = IF Idle THEN outcome ELSE Raised(CurrentMethod, "Cancelled")
    /\ pending' = "Cancelled"
    /\ mainpc' = "finally"
    /\ UNCHANGED <<inputs, printed, input_line, lifecycle, locals>>

\* lines 236-238: the finally block calls cleanup
MainFinally ==
    /\ mainpc = "finally"
    /\ cleanup
    /\ mainpc' = "cleaning"
    /\ UNCHANGED <<pending, inputs, printed, input_line>>

\* line 238 done: main ends, with the exception that is propagating if any
MainExit ==
    /\ mainpc = "cleaning"
    /\ Idle
    /\ mainpc' = "exited"
    /\ pending' = IF outcome.status = "raised" THEN outcome.fault ELSE pending
    /\ UNCHANGED <<inputs, printed, input_line, lifecycle, pc, outcome, locals>>

----------------------------------------------------------------------------
(* The class used directly *)

Queries == { <<"h", "i">> }

ApiConnect ==
    /\ mainpc = "api"
    /\ inputs < MaxCalls
    /\ inputs' = inputs + 1
    /\ \E path \in ScriptPaths : connect_to_server(path)
    /\ UNCHANGED <<mainpc, pending, printed, input_line>>

ApiQuery ==
    /\ mainpc = "api"
    /\ inputs < MaxCalls
    /\ inputs' = inputs + 1
    /\ \E q \in Queries : process_query(q)
    /\ UNCHANGED <<mainpc, pending, printed, input_line>>

ApiCleanup ==
    /\ mainpc = "api"
    /\ inputs < MaxCalls
    /\ inputs' = inputs + 1
    /\ cleanup
    /\ UNCHANGED <<mainpc, pending, printed, input_line>>

----------------------------------------------------------------------------
(* Specifications *)

\* lines 32-42: the client after construction
InitClient ==
    /\ session = "None"
    /\ exit_stack = <<>>
    /\ opened = {}
    /\ initialized = FALSE
    /\ acquired = <<>>
    /\ exits = <<>>
    /\ cleanups = 0
    /\ exit_exc = FALSE
    /\ pc = "idle"
    /\ outcome = NoOutcome
    /\ query = <<>>
    /\ tools_resp = <<>>
    /\ function_decls = <<>>
    /\ contents = <<>>
    /\ final_text_parts = <<>>
    /\ parts = <<>>
    /\ tool_calls = <<>>
    /\ tool_response_parts = <<>>
    /\ listLog = <<>>
    /\ genLog = <<>>
    /\ toolLog = <<>>
    /\ pending = "None"
    /\ inputs = 0
    /\ printed = NothingPrinted
    /\ input_line = <<>>

Init == InitClient /\ mainpc = "start"

InitAPI == InitClient /\ mainpc = "api"

Next ==
    \/ MainConnect
    \/ MainConnectDone
    \/ ChatLoopRead
    \/ ChatLoopInputError
    \/ ChatLoopQueryDone
    \/ MainInterrupt
    \/ MainFinally
    \/ MainExit
    \/ ConnectEnterStdio
    \/ ConnectEnterSession
    \/ ConnectInitialize
    \/ ConnectListTools
    \/ CleanupExitOne
    \/ CleanupReturn
    \/ PQListTools
    \/ PQGenerate
    \/ PQGenerateFault
    \/ PQCallToolSend
    \/ PQCallTool
    \/ PQCallToolFault

NextAPI ==
    \/ ApiConnect
    \/ ApiQuery
    \/ ApiCleanup
    \/ ConnectEnterStdio
    \/ ConnectEnterSession
    \/ ConnectInitialize
    \/ ConnectListTools
    \/ CleanupExitOne
    \/ CleanupReturn
    \/ PQListTools
    \/ PQGenerate
    \/ PQGenerateFault
    \/ PQCallToolSend
    \/ PQCallTool
    \/ PQCallToolFault

Spec == Init /\ [][Next]_vars

SpecAPI == InitAPI /\ [][NextAPI]_vars

----------------------------------------------------------------------------
(* Properties of process_query *)

\* a run of process_query has ended (and no other method was called since)
RunEnded == Idle /\ outcome.method = "process_query"

\* a run of process_query is in progress
RunActive == pc \in {"list_tools", "generate", "call_tool", "await_tool"}

\* the locals and the history are those of the run in progress or just ended
InRun == RunActive \/ RunEnded

Last(s) == s[Len(s)]

RECURSIVE Flatten(_)
Flatten(ss) == IF ss = <<>> THEN <<>> ELSE Head(ss) \o Flatten(Tail(ss))

\* every part the model has returned in this run, in emission order
Emitted == Flatten([i \in 1..Len(genLog) |-> genLog[i].parts])

IsResponse(p) == p.kind = "function_response"

\* the i-th turn asks for tools
RequestsTools(c, i) == c[i].role = "model" /\ ExtractCalls(c[i].parts) # <<>>

\* the i-th turn is answered by the turn that follows it: one response per
\* request, the j-th response carrying the name of the j-th request
Answered(c, i) ==
    /\ i < Len(c)
    /\ c[i + 1].role = "user"
    /\ LET reqs == ExtractCalls(c[i].parts)
           resps == c[i + 1].parts
       IN /\ Len(resps) = Len(reqs)
          /\ \A j \in 1..Len(reqs) : IsResponse(resps[j]) /\ resps[j].name = reqs[j].name

\* the responses folded so far: those of the conversation, then those built
\* for the model turn that is being answered
FoldedResponses ==
    Flatten([i \in 1..Len(contents) |-> SelectSeq(contents[i].parts, IsResponse)])
    \o (IF contents # <<>> /\ Last(contents).role = "model"
        THEN tool_response_parts ELSE <<>>)

\* C1: in every run of process_query, every model response with k >= 1 tool
\* requests is directly followed by exactly one tool-result turn with k
\* responses, the i-th named after the i-th request, and the model is not
\* invoked while a request of the latest model turn is unanswered.  Stated at
\* each model invocation and at the end of every run the caller did not
\* interrupt.
C1_EveryRequestAnswered ==
    (pc = "generate" \/ (RunEnded /\ outcome.fault # "Cancelled"))
        => \A i \in 1..Len(contents) : RequestsTools(contents, i) => Answered(contents, i)

\* C2: a tool call answered with a tool-side failure is folded like any other
\* answer, as a response named after the request, and does not abort the
\* query: the loop goes on to the next tool call or to the next model
\* invocation.
C2_ToolFailureFolded ==
    /\ \A i \in 1..Len(toolLog) :
         IsErrorContent(toolLog[i].result)
           => /\ i <= Len(FoldedResponses)
              /\ FoldedResponses[i].name = toolLog[i].name
              /\ FoldedResponses[i].response = toolLog[i].result
    /\ (InRun /\ toolLog # <<>> /\ IsErrorContent(Last(toolLog).result))
         => IF Len(tool_response_parts) < Len(tool_calls)
            THEN pc = "call_tool" \/ (RunEnded /\ outcome.fault = "Cancelled")
            ELSE /\ Last(contents) = Content("user", tool_response_parts)
                 /\ \/ pc = "generate"
                    \/ RunEnded /\ outcome.fault = "Cancelled"
                    \/ RunEnded /\ nGen > Len(SelectSeq(contents, LAMBDA t : t.role = "model"))

\* C2 witness: a run in which the service answered "Unknown tool" has gone on
\* to the next model invocation and returned its answer
C2_Witness ==
    /\ RunEnded
    /\ outcome.status = "returned"
    /\ \E i \in 1..Len(toolLog) :
         toolLog[i].name = "doesNotExist" /\ toolLog[i].result = "Unknown tool"

\* C3: a tool call that fails in the transport is folded as a response for
\* that request and the query is not aborted.
C3_TransportFailureFolded ==
    \A i \in 1..Len(toolLog) :
        (InRun /\ toolLog[i].result = "TransportError")
          => /\ i <= Len(FoldedResponses)
             /\ FoldedResponses[i].name = toolLog[i].name
             /\ ~(RunEnded /\ outcome = Raised("process_query", "TransportError"))

\* C4: a run ends in one of two ways, the returned text or an explicit fault; a
\* fault of the model call ends the run with that fault, and a text is
\* returned only when the last model invocation succeeded with a response
\* free of tool requests.
C4_ReturnsOrFails ==
    /\ RunEnded =>
         \/ /\ outcome.status = "returned"
            /\ genLog # <<>>
            /\ ~Last(genLog).fault
            /\ ExtractCalls(Last(genLog).parts) = <<>>
         \/ /\ outcome.status = "raised"
            /\ outcome.fault # "None"
            /\ outcome.value = NoValue
    /\ (InRun /\ genLog # <<>> /\ Last(genLog).fault)
         => /\ RunEnded
            /\ outcome = Raised("process_query", "ModelError")

\* C4 witness: the model call failed in the second iteration, after text had
\* been collected in the first
C4_Witness ==
    /\ RunEnded
    /\ Len(genLog) = 2
    /\ genLog[2].fault
    /\ final_text_parts # <<>>

\* the text is empty or whitespace only
Blank(t) == \A i \in 1..Len(t) : t[i] \in Whitespace

\* the text fragments the model has emitted in this run, in emission order
EmittedTexts ==
    LET ps == SelectSeq(Emitted, LAMBDA p : p.kind = "text")
    IN [i \in 1..Len(ps) |-> ps[i].text]

\* C5: the value returned is the sequence of the text fragments of all model
\* invocations of the run, in emission order, without the empty and
\* whitespace-only ones, joined by the separator.
C5_ReturnsAllText ==
    (RunEnded /\ outcome.status = "returned")
        => outcome.value =
             JoinWith(<<"\n">>, SelectSeq(EmittedTexts, LAMBDA t : ~Blank(t)))

\* C5 witness: text emitted next to a tool request and text of a later
\* response, with blank fragments in between, were returned
C5_Witness ==
    /\ RunEnded
    /\ outcome.status = "returned"
    /\ Len(genLog) = 2
    /\ ExtractCalls(genLog[1].parts) # <<>>
    /\ \E t \in {EmittedTexts[i] : i \in 1..Len(EmittedTexts)} : Blank(t)
    /\ outcome.value = <<"b", "\n", "a", " ">>

\* the first response of the model came and holds no tool request
FirstResponseToolFree ==
    /\ InRun
    /\ genLog # <<>>
    /\ ~genLog[1].fault
    /\ ExtractCalls(genLog[1].parts) = <<>>

\* the text fragments of the first response
FirstTexts ==
    LET ps == SelectSeq(genLog[1].parts, LAMBDA p : p.kind = "text")
    IN [i \in 1..Len(ps) |-> ps[i].text]

\* C6 as stated: if the first response holds no tool request, the value
\* returned is exactly the concatenation of its text parts, the model is
\* invoked once and call_tool never.
C6_Original ==
    FirstResponseToolFree
        => /\ RunEnded
           /\ outcome = Returned("process_query", Flatten(FirstTexts))
           /\ Len(genLog) = 1
           /\ toolLog = <<>>

\* C6 as amended: if the first response holds no tool request, the value
\* returned is its text parts, the empty and whitespace-only ones left out,
\* joined by a newline; the model is invoked once and call_tool never.
C6_SingleTurn ==
    FirstResponseToolFree
        => /\ RunEnded
           /\ outcome = Returned("process_query",
                  JoinWith(<<"\n">>, SelectSeq(FirstTexts, LAMBDA t : ~Blank(t))))
           /\ Len(genLog) = 1
           /\ toolLog = <<>>

\* C6 witness: a first response of two text parts was returned
C6_Witness ==
    /\ FirstResponseToolFree
    /\ RunEnded
    /\ Len(FirstTexts) = 2
    /\ outcome.value = <<"a", "\n", "b">>

----------------------------------------------------------------------------
(* Properties of the session lifecycle *)

Range(s) == {s[i] : i \in 1..Len(s)}

Reverse(s) == [i \in 1..Len(s) |-> s[Len(s) + 1 - i]]

\* C7: main ends only after cleanup has run, whichever way the try block was
\* left (connect_to_server raising at any step, quit, an interrupt), and once
\* cleanup has run every context connect_to_server entered has been exited.
C7_CleanupOnEveryExit ==
    /\ mainpc = "exited" => cleanups >= 1
    /\ cleanups >= 1
         => /\ opened = {}
            /\ exit_stack = <<>>
            /\ Range(acquired) \subseteq Range(exits)

\* C7 witness: connect_to_server failed after the transport had been opened,
\* and main has ended
C7_Witness ==
    /\ mainpc = "exited"
    /\ pending = "TransportError"
    /\ acquired = <<"stdio_client">>
    /\ exits = <<"stdio_client">>

\* C8: a cleanup after the first one exits nothing and does not fail: no
\* context is exited twice, and the resources are as the first call left them.
C8_CleanupIdempotent ==
    /\ \A i, j \in 1..Len(exits) : exits[i] = exits[j] => i = j
    /\ (cleanups >= 1 /\ pc = "aclose") => (exit_stack = <<>> /\ ~exit_exc)
    /\ (cleanups >= 2 /\ Idle /\ outcome.method = "cleanup")
         => outcome.status = "returned"
    /\ cleanups >= 1
         => /\ exit_stack = <<>>
            /\ opened = {}
            /\ Len(exits) = Len(acquired)

\* C8 witness: cleanup has been called twice after a complete connection
C8_Witness ==
    /\ cleanups = 2
    /\ Idle
    /\ acquired = <<"stdio_client", "ClientSession">>
    /\ Len(exits) = 2

\* C9: the contexts are exited in the reverse of the order in which
\* connect_to_server entered them, whatever prefix of them it entered: what
\* is still registered, followed by what was exited read backwards, is what
\* was entered.
C9_ReverseOrder == exit_stack \o Reverse(exits) = acquired

\* C9 witness: the session was closed, then the transport
C9_Witness == exits = <<"ClientSession", "stdio_client">>

\* C10: process_query called when the handshake of connect_to_server has not
\* completed fails with the precondition fault and makes no list_tools
\* request, no model invocation and no tool call.
C10_PreconditionFault ==
    (InRun /\ ~initialized)
        => /\ RunEnded
           /\ outcome = Raised("process_query", "RuntimeError")
           /\ nList = 0
           /\ genLog = <<>>
           /\ toolLog = <<>>

----------------------------------------------------------------------------
(* the conversation and the loop *)

IsPrefix(s, t) == Len(s) <= Len(t) /\ SubSeq(t, 1, Len(s)) = s

\* the first turn of a conversation: the query as a user turn
QueryTurn == Content("user", <<TextPart(query)>>)

\* C11: within one run the conversation is append-only.  The conversation
\* given to the model at invocation n is an unmodified proper prefix of the
\* one given at invocation n+1 and of the conversation as it is now, and each
\* invocation is given the full history: the query's turn and the model turn
\* of every earlier response of the run.
C11_AppendOnly ==
    /\ \A n \in 1..Len(genLog) :
         /\ IsPrefix(genLog[n].contents, contents)
         /\ genLog[n].contents[1] = QueryTurn
         /\ Len(genLog[n].contents) = 2 * n - 1
         /\ \A k \in 1..(n - 1) :
              /\ IsPrefix(genLog[k].contents, genLog[n].contents)
              /\ Len(genLog[k].contents) < Len(genLog[n].contents)
              /\ genLog[n].contents[2 * k] = Content("model", genLog[k].parts)

\* C11 witness: a run has invoked the model twice and returned
C11_Witness ==
    /\ RunEnded
    /\ outcome.status = "returned"
    /\ Len(genLog) >= 2
    /\ Len(Last(genLog).contents) = 3

----------------------------------------------------------------------------
(* connecting *)

\* the last three characters of a path, or the whole path if it is shorter
Suffix3(path) == SubSeq(path, IF Len(path) > 3 THEN Len(path) - 2 ELSE 1, Len(path))

\* C12: connect_to_server called with a path that ends in neither .py nor
\* .js fails with ValueError in that very step, before any resource is
\* acquired: nothing has been entered on the exit stack, no subprocess,
\* transport or session is open, no later step of the connection is pending,
\* and the session stays unset.
C12_UnsupportedPathFailsEarly ==
    [][\A path \in ScriptPaths :
         (connect_to_server(path)
            /\ Suffix3(path) \notin {<<".", "p", "y">>, <<".", "j", "s">>})
           => /\ outcome' = Raised("connect_to_server", "ValueError")
              /\ pc' = "idle"
              /\ acquired' = <<>>
              /\ exit_stack' = <<>>
              /\ opened' = {}
              /\ ~initialized'
              /\ session' = "None"]_vars

\* C12 witness: a connection has been refused for its path and nothing is held
C12_Witness ==
    /\ outcome = Raised("connect_to_server", "ValueError")
    /\ acquired = <<>>
    /\ opened = {}
    /\ session = "None"

----------------------------------------------------------------------------
(* the catalog *)

\* the catalog as the tool service returned it in this run
Fetched == Last(listLog).tools

CatalogFetched == listLog # <<>> /\ ~Last(listLog).fault

\* C13: for the catalog fetched in a run the adapter produces one function
\* declaration per tool descriptor, with the same name and in catalog order.
\* A descriptor with no inputSchema gets exactly {type: "object",
\* properties: {}}; a descriptor whose inputSchema lacks type gets type
\* "object" and every key of its schema with its value unchanged (and, when
\* the schema has any key, no other key); a schema that has a type is passed
\* as it is; a missing description becomes the empty string and a present
\* one is passed as it is.
C13_AdapterOutput ==
    CatalogFetched =>
      /\ Len(function_decls) = Len(Fetched)
      /\ \A i \in 1..Len(Fetched) :
           LET t == Fetched[i]
               d == function_decls[i]
           IN /\ d.name = t.name
              /\ t.inputSchema = None
                   => d.parameters = [type |-> "object", properties |-> "{}"]
              /\ (t.inputSchema # None /\ "type" \notin DOMAIN t.inputSchema[1])
                   => /\ d.parameters["type"] = "object"
                      /\ \A k \in DOMAIN t.inputSchema[1] :
                           /\ k \in DOMAIN d.parameters
                           /\ d.parameters[k] = t.inputSchema[1][k]
                      /\ DOMAIN t.inputSchema[1] # {}
                           => DOMAIN d.parameters = DOMAIN t.inputSchema[1] \cup {"type"}
              /\ (t.inputSchema # None /\ "type" \in DOMAIN t.inputSchema[1])
                   => d.parameters = t.inputSchema[1]
              /\ t.description = None => d.description = ""
              /\ t.description # None => d.description = t.description[1]

\* C13 witness: a catalog of two tools, the second with a schema that has
\* properties but no type and with no description, has been converted
C13_Witness ==
    /\ pc = "generate"
    /\ CatalogFetched
    /\ Len(Fetched) = 2
    /\ Len(function_decls) = 2
    /\ Fetched[2].description = None
    /\ Fetched[2].inputSchema # None
    /\ DOMAIN Fetched[2].inputSchema[1] = {"properties"}

----------------------------------------------------------------------------
(* the tool calls *)

InFlight(e) == e.result = "InFlight"

\* the tool requests of the run, in the order the model emitted them
Requested == ExtractCalls(Emitted)

\* the responses that are in a turn of the conversation
AppendedResponses ==
    Flatten([i \in 1..Len(contents) |-> SelectSeq(contents[i].parts, IsResponse)])

\* C14: the tool calls are executed strictly sequentially in the order the
\* requests were emitted.  Only the request issued last can be in flight, so
\* no call is issued before the one before it has returned and at most one
\* is in flight; the i-th call issued is the i-th request emitted, with its
\* arguments; and a tool-result turn is in the conversation only when every
\* request of the model turn before it has been resolved, its responses
\* being the results of those calls in order.
C14_Sequential ==
    /\ \A i \in 1..Len(toolLog) : InFlight(toolLog[i]) => i = Len(toolLog)
    /\ Len(toolLog) <= Len(Requested)
    /\ \A i \in 1..Len(toolLog) :
         /\ toolLog[i].name = Requested[i].name
         /\ toolLog[i].args = ToolArgs(Requested[i])
    /\ Len(AppendedResponses) <= Len(toolLog)
    /\ \A i \in 1..Len(AppendedResponses) :
         /\ ~InFlight(toolLog[i])
         /\ AppendedResponses[i] = ResponsePart(toolLog[i].name, toolLog[i].result)
    /\ \A j \in 2..Len(contents) :
         contents[j].role = "user"
           => /\ Len(contents[j].parts) = Len(ExtractCalls(contents[j - 1].parts))
              /\ Len(Flatten([i \in 1..j |-> ExtractCalls(contents[i].parts)]))
                   <= Len(SelectSeq(toolLog, LAMBDA e : ~InFlight(e)))

\* C14 witness: the two calls of one model turn have both returned and their
\* results are in the conversation as one turn
C14_Witness ==
    /\ Len(toolLog) >= 2
    /\ \A i \in 1..Len(toolLog) : ~InFlight(toolLog[i])
    /\ contents # <<>>
    /\ Last(contents).role = "user"
    /\ Len(Last(contents).parts) = 2

\* C15: in each run the catalog is fetched exactly once, before the first
\* model invocation, and every model invocation of the run is given the same
\* declaration set, the one made from that fetch; a later run fetches again.
\* Stated for every run, a second one included: a run that has reached the
\* model has exactly one list_tools request in its own history, it succeeded,
\* and no step after the fetch issues another.
C15_CatalogOncePerRun ==
    /\ Len(listLog) <= 1
    /\ (pc \in {"generate", "call_tool", "await_tool"} \/ genLog # <<>>)
         => /\ Len(listLog) = 1
            /\ CatalogFetched
            /\ Len(function_decls) = Len(Fetched)
            /\ \A i \in 1..Len(Fetched) : function_decls[i].name = Fetched[i].name
    /\ \A n \in 1..Len(genLog) : genLog[n].config = function_decls

\* C15 witness: the second run of a client has fetched a catalog of two tools
\* and invoked the model twice with it
C15_Witness ==
    /\ inputs = 2
    /\ Len(genLog) = 2
    /\ Len(listLog) = 1
    /\ Len(Fetched) = 2
    /\ genLog[1].config = genLog[2].config

----------------------------------------------------------------------------
(* the end of the loop *)

ToolFree(e) == ~e.fault /\ ExtractCalls(e.parts) = <<>>

\* C16: a run returns at the first model response that contains no tool
\* request and not earlier.  Every response before the last one of a run
\* carried a tool request; a run whose last response is free of tool
\* requests has returned with it; and a run whose last response carries a
\* tool request has not returned: it is executing the calls, is about to
\* invoke the model again, or was ended by a fault.  No count of iterations
\* ends the loop.
C16_ReturnsAtFirstToolFree ==
    /\ \A n \in 1..(Len(genLog) - 1) :
         ~genLog[n].fault /\ ExtractCalls(genLog[n].parts) # <<>>
    /\ (InRun /\ genLog # <<>> /\ ToolFree(Last(genLog)))
         => RunEnded /\ outcome.status = "returned"
    /\ (InRun /\ genLog # <<>> /\ ~Last(genLog).fault /\ ~ToolFree(Last(genLog)))
         => \/ pc \in {"call_tool", "await_tool", "generate"}
            \/ RunEnded /\ outcome.status = "raised"
    /\ (RunEnded /\ outcome.status = "returned")
         => genLog # <<>> /\ ToolFree(Last(genLog))

\* C16 witness: a run went through a response with tool requests and
\* returned at the next one, which had none
C16_Witness ==
    /\ RunEnded
    /\ outcome.status = "returned"
    /\ Len(genLog) = 2
    /\ ExtractCalls(genLog[1].parts) # <<>>
    /\ ToolFree(genLog[2])

----------------------------------------------------------------------------
(* ownership of the session *)

\* C17: process_query only borrows the session.  The step that calls it,
\* whether it passes the precondition or fails it, and every step taken
\* while it runs, up to and including the one that returns or raises, leave
\* the session reference, the exit stack and the open state of the
\* transport and the session unchanged; and the only steps that close
\* anything or pop the exit stack are those of cleanup.
C17_BorrowsSession ==
    [][/\ (RunActive \/ \E q \in Queries : process_query(q))
            => UNCHANGED <<session, exit_stack, opened, initialized, acquired, exits>>
       /\ (~(opened \subseteq opened') \/ Len(exit_stack') < Len(exit_stack))
            => pc = "aclose"]_vars

\* C17 witness: a run was ended by a tool call that failed in the transport,
\* and the client still holds its session, open, on its exit stack
C17_Witness ==
    /\ RunEnded
    /\ outcome = Raised("process_query", "TransportError")
    /\ toolLog # <<>>
    /\ Last(toolLog).result = "TransportError"
    /\ session # "None"
    /\ "ClientSession" \in opened
    /\ exit_stack # <<>>

\* C18: converting the catalog to function declarations has no side effects:
\* the tool descriptors of the list_tools response, their inputSchema
\* included, are after the conversion what the tool service returned.
C18_ConversionPure ==
    (InRun /\ CatalogFetched) => tools_resp = Fetched

----------------------------------------------------------------------------
(* the shape of the conversation *)

IsModelTurn(t) == t.role = "model" /\ ExtractCalls(t.parts) # <<>>

IsToolResultTurn(t) ==
    /\ t.role = "user"
    /\ t.parts # <<>>
    /\ \A j \in 1..Len(t.parts) : IsResponse(t.parts[j])

\* UserTurn(query) followed by (ModelTurn, ToolResultTurn) pairs
WellShaped(c) ==
    /\ Len(c) % 2 = 1
    /\ c[1] = QueryTurn
    /\ \A i \in 2..Len(c) :
         IF i % 2 = 0 THEN IsModelTurn(c[i]) ELSE IsToolResultTurn(c[i])

\* C19: at every model invocation the conversation is the UserTurn of the
\* current query followed by zero or more (ModelTurn, ToolResultTurn) pairs.
\* The first invocation of a run is given the query's turn only, so no turn
\* of an earlier query; every ModelTurn holds at least one tool request and
\* exactly the parts of the response the model returned at that point of
\* the run; and the final response, free of tool requests, is never
\* appended: no turn of the conversation, during or after the run, is a
\* model turn without a tool request.
C19_ConversationShape ==
    /\ \A n \in 1..Len(genLog) :
         /\ WellShaped(genLog[n].contents)
         /\ Len(genLog[n].contents) = 2 * n - 1
         /\ \A k \in 1..(n - 1) : genLog[n].contents[2 * k].parts = genLog[k].parts
    /\ pc = "generate" => WellShaped(contents)
    /\ \A i \in 1..Len(contents) :
         contents[i].role = "model" => ExtractCalls(contents[i].parts) # <<>>
    /\ (RunEnded /\ outcome.status = "returned")
         => /\ WellShaped(contents)
            /\ Len(contents) = 2 * Len(genLog) - 1

\* C19 witness: the second query of a client has been through one pair of
\* turns and returned at its second invocation
C19_Witness ==
    /\ inputs = 2
    /\ RunEnded
    /\ outcome.status = "returned"
    /\ Len(genLog) = 2
    /\ Len(genLog[1].contents) = 1
    /\ Len(genLog[2].contents) = 3
    /\ Len(contents) = 3

----------------------------------------------------------------------------
(* chat_loop *)

\* the lines that are 'quit' once trimmed and lowered
QuitLines == { <<"q", "u", "i", "t">>, <<" ", "Q", "U", "I", "T", "\n">> }

InChatLoop == mainpc \in {"chat_loop", "querying"}

\* while chat_loop runs, the session is open and ready and no step of cleanup
\* has been taken
SessionUsable ==
    /\ session # "None"
    /\ SessionReady
    /\ cleanups = 0
    /\ exits = <<>>
    /\ pc # "aclose"

\* C20: in chat_loop an Exception raised by reading or by processing a query
\* (a model fault or a tool-call fault; the precondition cannot fail once
\* main has connected) is caught and reported and the loop goes on to read
\* the next query, with the session open and usable; chat_loop returns only
\* when the line read, trimmed, equals 'quit' whatever its case; and cleanup
\* is never run between two queries.  Only an interrupt, which is not an
\* Exception, leaves the loop otherwise.
C20_ChatLoopSurvivesFaults ==
    [][/\ (mainpc = "querying" /\ Idle /\ outcome.status = "raised"
             /\ pending' # "Cancelled")
            => /\ mainpc' = "chat_loop"
               /\ printed' = [kind |-> "error", text |-> <<outcome.fault>>]
               /\ UNCHANGED <<session, exit_stack, opened, initialized>>
       /\ (mainpc = "chat_loop" /\ inputs' = inputs + 1 /\ mainpc' = "chat_loop")
            => printed'.kind = "error"
       /\ InChatLoop' => SessionUsable'
       /\ (InChatLoop /\ ~InChatLoop')
            => /\ mainpc' = "finally"
               /\ \/ pending' = "Cancelled"
                  \/ pending' = "None" /\ mainpc = "chat_loop" /\ input_line' \in QuitLines
       /\ (mainpc' \in {"finally", "cleaning"} /\ pending' = "None")
            => input_line' \in QuitLines]_vars

\* C20 witness: a query failed, the error was reported, and the next query
\* of the same loop is being answered over the same session
C20_Witness ==
    /\ mainpc = "querying"
    /\ inputs = 2
    /\ printed.kind = "error"
    /\ RunEnded
    /\ outcome.status = "returned"
    /\ toolLog # <<>>
    /\ SessionUsable

============================================================================
